---- MODULE Spec2Model ----
(***************************************************************************)
(* Rotating shallow-water model (JupiRSW): the time-series storage         *)
(* (src/src/data.py), the model orchestration (src/src/model.py), and the  *)
(* duration parser (src/src/utils.py).                                     *)
(*                                                                         *)
(* Field arrays are abstracted to one token per snapshot: NaN for a slot   *)
(* that was only allocated, a natural number for a written state.  Times   *)
(* are integer seconds.  Strings are sequences of one-character strings.   *)
(***************************************************************************)
EXTENDS Integers, Sequences, FiniteSets, TLC

(***************************************************************************)
(* Bounds of the model                                                     *)
(***************************************************************************)
\* largest slot index a caller asks the storage to write
MaxTimeIdx == 104
\* calls of Data.store_state whose arguments are unconstrained
MaxFreeCalls == 1
\* extensions a store_state call that never finds its slot completes before
\* the memory of the process ends
MaxFullExtends == 1
\* length of a file name handed to save_nc
MaxNameLen == 3
\* size of the storage up to which a caller extends it by hand
MaxExtendSize == 4
\* compute_pv calls on one storage
MaxPvCalls == 2
\* show_var_anim calls on one model
MaxAnims == 2
\* calls of make_dataset, store_state and extend_dataset of one model from
\* outside the model
MaxDirectCalls == 1

(***************************************************************************)
(* State: the storage (d_), the model (m_), a parse_time call (p_) and a    *)
(* model construction (c_)                                                 *)
(***************************************************************************)
VARIABLES
  d_output_dt,  \* Data.output_dt: spacing of the time axis, seconds
  d_u,          \* Data.u
  d_v,          \* Data.v
  d_h,          \* Data.h
  d_time,       \* Data.time: latest written time
  d_err,        \* exception that reached the caller of the last call
  d_call,       \* the last store_state call: [time, val, prev_time, ext]
  d_calls,      \* number of store_state calls so far
  d_seq,        \* all calls so far wrote 0, D, 2D, ... in order
  d_ext,        \* number of extend_dataset calls so far
  d_prev_ext,   \* extensions made by the store_state call before the last
  d_file,       \* what the last call, a save_nc, wrote: [name, times, arg]
  d_extend,     \* the last call, an extend_dataset(n): [n, size before]
  d_pv,         \* Data.pv, NoPv while the attribute is not set
  d_pv_n        \* number of compute_pv calls so far

pvvars == <<d_pv, d_pv_n>>

dvars == <<d_output_dt, d_u, d_v, d_h, d_time, d_err, d_call, d_calls,
           d_seq, d_ext, d_prev_ext, d_file, d_extend, pvvars>>

VARIABLES
  model,    \* the Model object
  m_call,   \* the last call: [op, err, arg, step_init, var, computed]
  m_hist,   \* [inits: initialize calls, pre_steps: steps before the first,
            \*  direct: calls of the dataset methods from outside,
            \*  anims: show_var_anim calls, pv_reqs: those for pv]
  m_file    \* what the last call, a save_nc, wrote: [name, times, arg]

mvars == <<model, m_call, m_hist, m_file>>

VARIABLES
  p_val,   \* the argument
  p_res    \* the outcome: [done, err, secs]

pvars == <<p_val, p_res>>

VARIABLES
  c_arg,   \* [nx, ny]: the grid asked for
  c_res,   \* outcome of Model(nx, ny): [done, err, dt, output_dt]
  c_res2   \* outcome of Model(2 nx, ny) with ny as given (None: 2 nx)

cvars == <<c_arg, c_res, c_res2>>

vars == <<dvars, mvars, pvars, cvars>>

(***************************************************************************)
(* Helpers                                                                 *)
(***************************************************************************)
Max2(a, b) == IF a >= b THEN a ELSE b

Min2(a, b) == IF a <= b THEN a ELSE b

\* placeholder of a slot that was allocated and never written (np.nan)
NaN == -1

\* a labelled array along time (xr.DataArray): s.time is the time
\* coordinate, s.val the fields slot by slot
Size(s) == Len(s.time)

\* x.time as a set of labels
Times(s) == {s.time[i] : i \in 1..Size(s)}

RECURSIVE MaxOf(_, _, _)
\* the largest of q[lo..hi]
MaxOf(q, lo, hi) ==
  IF lo = hi THEN q[lo]
  ELSE LET mid == (lo + hi) \div 2
       IN Max2(MaxOf(q, lo, mid), MaxOf(q, mid + 1, hi))

\* x.time.max()
TimeMax(s) == MaxOf(s.time, 1, Size(s))

\* xr.concat([s, new], dim='time')
Concat(s, new) == [time |-> s.time \o new.time, val |-> s.val \o new.val]

(***************************************************************************)
(* Data (src/src/data.py)                                                  *)
(***************************************************************************)
\* Data.make_dataset: one slot at t = 0 filled with NaN
DataMakeDataset == [time |-> <<0>>, val |-> <<NaN>>]

\* a faulty extend_dataset: always n more slots, never a doubling
NewSlotsAddN(s_u, n, odt) ==
  LET t_max == TimeMax(s_u)
  IN [time |-> [k \in 1..n |-> t_max + k * odt], val |-> [k \in 1..n |-> NaN]]

\* the slots extend_dataset appends: n = max(n, size), times
\* arange(t_max + odt, t_max + (n+1)*odt, odt), fields NaN
NewSlots(s_u, n, odt) ==
  LET t_max == TimeMax(s_u)
      nn == Max2(n, Size(s_u))
  IN [time |-> [k \in 1..nn |-> t_max + k * odt],
      val |-> [k \in 1..nn |-> NaN]]

\* Data.extend_dataset(n=100) on the record st = [u, v, h, time, err, ext]
DataExtendDataset(st, n, odt) ==
  LET new == NewSlots(st.u, n, odt)
  IN [st EXCEPT !.u = Concat(st.u, new), !.v = Concat(st.v, new),
                !.h = Concat(st.h, new), !.ext = st.ext + 1]

\* Data.extend_dataset(n) in which an allocation raises MemoryError: the
\* three xr.concat are three statements, so part of them (0, 1 or 2) are
\* done when the new arrays or the next concat find no memory
DataExtendPart(st, n, odt, part) ==
  LET new == NewSlots(st.u, n, odt)
  IN [st EXCEPT !.u = IF part >= 1 THEN Concat(st.u, new) ELSE st.u,
                !.v = IF part >= 2 THEN Concat(st.v, new) ELSE st.v,
                !.err = "MemoryError"]

\* the memory a call finds: a call that goes on extending completes ext
\* extensions and part of the concats of the next one
Memories == [ext : 1..MaxFullExtends, part : 0..2]

\* the memory of a call that ends by itself
SomeMemory == [ext |-> 1, part |-> 0]

\* no extension ever labels a slot t: the new labels are t_max + odt,
\* t_max + 2 odt, ... of the u axis
NeverOnAxis(s_u, t, odt) ==
  /\ t \notin Times(s_u)
  /\ ~(t > TimeMax(s_u) /\ (t - TimeMax(s_u)) % odt = 0)

\* x.loc[dict(time=t)] = val; the caller has checked t \in Times(s)
LocSet(s, t, val) ==
  [s EXCEPT !.val = [i \in 1..Size(s) |-> IF s.time[i] = t THEN val
                                          ELSE s.val[i]]]

\* the try block of Data.store_state: a KeyError leaves the assignments
\* made before it in place
TryStore(st, t, val) ==
  IF t \notin Times(st.u) THEN [st EXCEPT !.err = "KeyError"]
  ELSE IF t \notin Times(st.v)
    THEN [st EXCEPT !.u = LocSet(st.u, t, val), !.err = "KeyError"]
  ELSE IF t \notin Times(st.h)
    THEN [st EXCEPT !.u = LocSet(st.u, t, val), !.v = LocSet(st.v, t, val),
                    !.err = "KeyError"]
  ELSE [st EXCEPT !.u = LocSet(st.u, t, val), !.v = LocSet(st.v, t, val),
                  !.h = LocSet(st.h, t, val), !.time = Max2(st.time, t),
                  !.err = "none"]

\* Data.store_state(time, u, v, h): try, and on KeyError extend and call
\* itself again, as often as it takes.  A call whose time no extension puts
\* on the axis goes on until an allocation of extend_dataset finds no
\* memory, and that MemoryError passes through every level to the caller
RECURSIVE DataStoreState(_, _, _, _, _)
DataStoreState(st, t, val, odt, mem) ==
  LET r == TryStore(st, t, val)
      st1 == [r EXCEPT !.err = "none"]
  IN IF r.err = "none" THEN r
     ELSE IF NeverOnAxis(st.u, t, odt) /\ st.ext >= mem.ext
       THEN DataExtendPart(st1, 100, odt, mem.part)
     ELSE DataStoreState(DataExtendDataset(st1, 100, odt), t, val, odt, mem)

\* a faulty to_dataset: every allocated slot is kept
DataToDatasetAll(s_u, latest) == Times(s_u)

\* Data.to_dataset: ds.sel(time = ds.time <= self.time), the time entries
DataToDataset(s_u, latest) == {t \in Times(s_u) : t <= latest}

\* core.pv(u, v, h + h_0, f, dx, dy) of one slot, as a token of the three
\* fields: (curl(u, v) + f) / h_tot is NaN in every cell only where h is
\* NaN; curl leaves cells that a NaN u or v does not reach, so with h a
\* number the field is partly numbers and is no NaN field (a NaN u or v
\* is written 0 in the token, which no stored field is)
CorePv(u, v, h) ==
  IF h = NaN THEN NaN
  ELSE ((IF u = NaN THEN 0 ELSE u) * 1000 + (IF v = NaN THEN 0 ELSE v)) * 1000
         + h

\* Data.compute_pv(h_0, f): the array it assigns to self.pv and returns, one
\* entry per slot of zip(self.u, self.h, self.v), on the time axis of h
DataComputePv(s_u, s_v, s_h) ==
  LET len == Min2(Size(s_u), Min2(Size(s_h), Size(s_v)))
  IN [time |-> s_h.time,
      val |-> [i \in 1..len |-> CorePv(s_u.val[i], s_v.val[i], s_h.val[i])]]

\* the storage without the attribute pv
NoPv == [time |-> <<>>, val |-> <<>>]

(***************************************************************************)
(* Strings                                                                 *)
(***************************************************************************)
\* all sequences over S of length 0..n
SeqsUpTo(S, n) == UNION {[1..k -> S] : k \in 0..n}

RECURSIVE LStrip(_, _)
\* str.lstrip(chars)
LStrip(s, chars) ==
  IF s # <<>> /\ Head(s) \in chars THEN LStrip(Tail(s), chars) ELSE s

RECURSIVE RStrip(_, _)
\* str.rstrip(chars)
RStrip(s, chars) ==
  IF s # <<>> /\ s[Len(s)] \in chars
    THEN RStrip(SubSeq(s, 1, Len(s) - 1), chars) ELSE s

\* str.strip(chars): drops every leading and trailing character of the set
Strip(s, chars) == RStrip(LStrip(s, chars), chars)

\* the literal ".nc"
DotNc == <<".", "n", "c">>

\* utils.generate_output_name(text): text, "_" and a time stamp, whose
\* digits and dashes are written here as the one character "0"
GenerateOutputName(text) == text \o <<"_", "0">>

\* the name Data.save_nc hands to to_netcdf: f'{filename.strip(".nc")}.nc'
NcName(filename) ==
  LET name == IF filename = <<>>
                THEN GenerateOutputName(<<"o", "u", "t", "p", "u", "t">>)
                ELSE filename
  IN Strip(name, {".", "n", "c"}) \o DotNc

\* characters of the file names tried
NameChars == {"r", "u", "n", ".", "c"}

\* file names handed to save_nc: a stem, with or without a ".nc" extension
FileNames ==
  LET stems == SeqsUpTo(NameChars, MaxNameLen)
  IN stems \cup {st \o DotNc : st \in stems}

(***************************************************************************)
(* utils.parse_time (src/src/utils.py)                                     *)
(***************************************************************************)
Digits == {"0", "1", "2", "3", "4", "5", "6", "7", "8", "9"}

DigitVal == ("0" :> 0) @@ ("1" :> 1) @@ ("2" :> 2) @@ ("3" :> 3) @@ ("4" :> 4)
  @@ ("5" :> 5) @@ ("6" :> 6) @@ ("7" :> 7) @@ ("8" :> 8) @@ ("9" :> 9)

\* the lower-case letters and their upper case
UpperOf ==
  ("a" :> "A") @@ ("b" :> "B") @@ ("c" :> "C") @@ ("d" :> "D") @@ ("e"
  :> "E") @@ ("f" :> "F") @@ ("g" :> "G") @@ ("h" :> "H") @@ ("i" :>
  "I") @@ ("j" :> "J") @@ ("k" :> "K") @@ ("l" :> "L") @@ ("m" :> "M")
  @@ ("n" :> "N") @@ ("o" :> "O") @@ ("p" :> "P") @@ ("q" :> "Q") @@
  ("r" :> "R") @@ ("s" :> "S") @@ ("t" :> "T") @@ ("u" :> "U") @@ ("v"
  :> "V") @@ ("w" :> "W") @@ ("x" :> "X") @@ ("y" :> "Y") @@ ("z" :>
  "Z")

\* str.upper()
Upper(s) == [i \in 1..Len(s) |-> IF s[i] \in DOMAIN UpperOf THEN UpperOf[s[i]]
                                 ELSE s[i]]

\* str.replace(' ', '')
RECURSIVE RemoveSpaces(_)
RemoveSpaces(s) ==
  IF s = <<>> THEN <<>>
  ELSE IF Head(s) = " " THEN RemoveSpaces(Tail(s))
  ELSE <<Head(s)>> \o RemoveSpaces(Tail(s))

\* float(digits)
RECURSIVE NumVal(_)
NumVal(ds) ==
  IF ds = <<>> THEN 0
  ELSE 10 * NumVal(SubSeq(ds, 1, Len(ds) - 1)) + DigitVal[ds[Len(ds)]]

\* the literal lit stands in s at position p
LitAt(s, p, lit) ==
  /\ p + Len(lit) - 1 <= Len(s)
  /\ SubSeq(s, p, p + Len(lit) - 1) = lit

\* an alternation (A|B|...) at position p: the index of the first
\* alternative that stands there, 0 when none does
FirstAlt(s, p, alts) ==
  IF \E a \in 1..Len(alts) : LitAt(s, p, alts[a])
    THEN CHOOSE a \in 1..Len(alts) :
           /\ LitAt(s, p, alts[a])
           /\ \A b \in 1..(a - 1) : ~LitAt(s, p, alts[b])
    ELSE 0

\* the unit names of the regular expression, in the order it lists them
YearUnits ==
  <<<<"Y">>, <<"Y", "R">>, <<"Y", "R", "S">>, <<"Y", "E", "A", "R", "S">>, <<"Y", "E", "A", "R">>>>

MonthUnits == <<<<"M">>, <<"M", "O", "N", "T", "H", "S">>, <<"M", "O", "N", "T", "H">>>>

WeekUnits == <<<<"W">>, <<"W", "E", "E", "K", "S">>, <<"W", "E", "E", "K">>>>

DayUnits == <<<<"D">>>>

HourUnits ==
  <<<<"H">>, <<"H", "R">>, <<"H", "R", "S">>, <<"H", "O", "U", "R">>, <<"H", "O", "U", "R", "S">>>>

MinuteUnits ==
  <<<<"M">>, <<"M", "I", "N">>, <<"M", "I", "N", "U", "T", "E">>, <<"M", "I", "N", "U", "T", "E", "S">>>>

SecondUnits ==
  <<<<"S">>, <<"S", "E", "C">>, <<"S", "E", "C", "O", "N", "D", "S">>, <<"S", "E", "C", "O", "N", "D">>>>

\* the alternatives DAY|DAYS that stand beside (\d+?)D in the day group
DayWords == <<<<"D", "A", "Y">>, <<"D", "A", "Y", "S">>>>

NoMatch(p) == [ok |-> FALSE, val |-> 0, next |-> p]

\* (\d+?)(A|B|...) at position p with k digits taken so far: the lazy
\* quantifier takes one more digit each time the alternation fails
RECURSIVE NumberUnit(_, _, _, _)
NumberUnit(s, p, k, alts) ==
  IF p + k - 1 > Len(s) \/ s[p + k - 1] \notin Digits THEN NoMatch(p)
  ELSE LET a == FirstAlt(s, p + k, alts)
       IN IF a # 0
            THEN [ok |-> TRUE, val |-> NumVal(SubSeq(s, p, p + k - 1)),
                  next |-> p + k + Len(alts[a])]
            ELSE NumberUnit(s, p, k + 1, alts)

\* an optional group ((\d+?)(A|B|...))? : skipped when it does not match
Group(s, p, alts) == NumberUnit(s, p, 1, alts)

\* the day group ((?P<d>\d+?)D|DAY|DAYS)? : the words DAY and DAYS are
\* alternatives of the whole group and carry no number
DayGroup(s, p) ==
  LET n == NumberUnit(s, p, 1, DayUnits)
      w == FirstAlt(s, p, DayWords)
  IN IF n.ok THEN n
     ELSE IF w # 0 THEN [ok |-> TRUE, val |-> 0, next |-> p + Len(DayWords[w])]
     ELSE NoMatch(p)

\* regex.match(val).groupdict() with None replaced by 0
GroupDict(s) ==
  LET y == Group(s, 1, YearUnits)
      m == Group(s, y.next, MonthUnits)
      w == Group(s, m.next, WeekUnits)
      d == DayGroup(s, w.next)
      h == Group(s, d.next, HourUnits)
      mi == Group(s, h.next, MinuteUnits)
      sc == Group(s, mi.next, SecondUnits)
  IN [y |-> y.val, m |-> m.val, w |-> w.val, d |-> d.val, h |-> h.val,
      min |-> mi.val, s |-> sc.val]

\* secs of parse_time
Secs(t) ==
  (((365 * t.y + 30 * t.m + 7 * t.w + t.d) * 24 + t.h) * 60 + t.min) * 60 + t.s

\* a value handed to parse_time: a number, a string, or something else
NumArg(n) == [kind |-> "num", num |-> n, str |-> <<>>]

StrArg(s) == [kind |-> "str", num |-> 0, str |-> s]

NoneArg == [kind |-> "none", num |-> 0, str |-> <<>>]

\* a faulty parse_time: what is not a number is taken for a string
ParseTimeNoTypeCheck(val) ==
  IF val.kind = "num" THEN [err |-> "none", secs |-> val.num]
  ELSE [err |-> "none", secs |-> Secs(GroupDict(Upper(RemoveSpaces(val.str))))]

\* utils.parse_time(val)
ParseTime(val) ==
  IF val.kind = "num" THEN [err |-> "none", secs |-> val.num]
  ELSE IF val.kind # "str" THEN [err |-> "ValueError", secs |-> 0]
  ELSE [err |-> "none", secs |-> Secs(GroupDict(Upper(RemoveSpaces(val.str))))]

(***************************************************************************)
(* Model.__init__ (src/src/model.py): the time step                        *)
(***************************************************************************)
\* cfl / sqrt((u_max/dx)^2 + (u_max/dy)^2) is K / sqrt((nx-1)^2 + (ny-1)^2)
\* with K = cfl * 2 * r_max / u_max, r_max = co(LAT_MIN)/180 * pi * R and
\* u_max = sqrt(g * h_0) = sqrt(BU) * (4 pi / T) * R_M.  With the values of
\* config.py, K * K = 2330948887.18...; K2Hi * 10^6 + K2Lo is its integer part
K2Hi == 2330

K2Lo == 948887

\* the least integer above K
KCeil == 48280

\* numbers past the machine integers: <<hi, lo>> is hi * 10^6 + lo
BigBase == 1000000

\* p * p for 0 <= p < 40000000
Sq(p) ==
  LET ph == p \div 1000
      pl == p % 1000
      mid == 2 * ph * pl
      low == (mid % 1000) * 1000 + pl * pl
  IN <<ph * ph + mid \div 1000 + low \div BigBase, low % BigBase>>

BigAdd(x, y) ==
  <<x[1] + y[1] + (x[2] + y[2]) \div BigBase, (x[2] + y[2]) % BigBase>>

BigLeq(x, y) == x[1] < y[1] \/ (x[1] = y[1] /\ x[2] <= y[2])

\* d <= K / sqrt(a^2 + b^2), for a, b >= 0 not both 0
Fits(d, a, b) ==
  /\ d <= KCeil \div Max2(a, b)
  /\ BigLeq(BigAdd(Sq(d * a), Sq(d * b)), <<K2Hi, K2Lo>>)

\* the largest d of lo..hi that fits; lo fits
RECURSIVE LargestFit(_, _, _, _)
LargestFit(lo, hi, a, b) ==
  IF lo >= hi THEN lo
  ELSE LET mid == (lo + hi + 1) \div 2
       IN IF Fits(mid, a, b) THEN LargestFit(mid, hi, a, b)
          ELSE LargestFit(lo, mid - 1, a, b)

\* self.dt = int(cfl / np.sqrt((u_max/self.dx)**2 + (u_max/self.dy)**2)),
\* for nx, ny >= 1 not both 1
CflDt(nx, ny) ==
  LargestFit(0, KCeil \div Max2(nx - 1, ny - 1), nx - 1, ny - 1)

\* the first lines of Model.__init__: dx, dy, dt and output_dt, or the
\* exception that ends the construction
ModelTimestep(nx, ny, output_dt) ==
  IF nx = 1 \/ ny = 1
    THEN [err |-> "ZeroDivisionError", dt |-> 0, output_dt |-> 0]
  ELSE LET dt == CflDt(nx, ny)
           po == ParseTime(output_dt)
       IN IF po.err # "none" THEN [err |-> po.err, dt |-> dt, output_dt |-> 0]
          ELSE IF dt = 0
            THEN [err |-> "ZeroDivisionError", dt |-> dt, output_dt |-> 0]
          ELSE [err |-> "none", dt |-> dt,
                output_dt |-> Max2(po.secs \div dt, 1)]

(***************************************************************************)
(* Model (src/src/model.py)                                                *)
(***************************************************************************)
\* utils.co(lat)
Co(lat) == 90 - lat

\* colatitudes are held in thousandths of a degree
ColatScale == 1000

\* the largest r of lo..hi with r * r <= n, n a number <<hi, lo>>
RECURSIVE BigIsqrtIn(_, _, _)
BigIsqrtIn(n, lo, hi) ==
  IF lo >= hi THEN lo
  ELSE LET mid == (lo + hi + 1) \div 2
       IN IF BigLeq(Sq(mid), n) THEN BigIsqrtIn(n, mid, hi)
          ELSE BigIsqrtIn(n, lo, mid - 1)

Abs(k) == IF k < 0 THEN 0 - k ELSE k

\* utils.colat(x, y, lat_min, r_max) at the grid point x_list[i], y_list[j],
\* in units of 1 / ColatScale degree, rounded down once at the end:
\* x / r_max = (2i - (nx-1)) / (nx-1), y / r_max = (2j - (ny-1)) / (ny-1),
\* so colat = co(lat_min) * sqrt(sx^2 + sy^2) / ((nx-1) * (ny-1))
Colat(i, j, nx, ny, lat_min) ==
  LET a == nx - 1
      b == ny - 1
      sx == Abs((2 * i - a) * b)
      sy == Abs((2 * j - b) * a)
      c == Co(lat_min) * ColatScale
      n == BigAdd(Sq(c * sx), Sq(c * sy))
  IN BigIsqrtIn(n, 0, c * (sx + sy)) \div (a * b)

\* a faulty sponge coefficient: no clamp at the sponge latitude
SpongeCoeffNoClamp(colat, lat_min, lat_sponge) ==
  [num |-> Max2(Co(lat_min) * ColatScale - colat, 0),
   den |-> (Co(lat_min) - Co(lat_sponge)) * ColatScale]

\* np.maximum((co(lat_min) - np.maximum(colat, co(lat_sponge)))
\*            / (co(lat_min) - co(lat_sponge)), 0), as the fraction num / den
SpongeCoeff(colat, lat_min, lat_sponge) ==
  [num |-> Max2(Co(lat_min) * ColatScale
                  - Max2(colat, Co(lat_sponge) * ColatScale), 0),
   den |-> (Co(lat_min) - Co(lat_sponge)) * ColatScale]

\* a series that was never made (the attribute does not exist)
NoSeries == [time |-> <<>>, val |-> <<>>]

\* the all-zero fields of a model that was not initialized, and the zeros of
\* the slots Model.extend_dataset allocates
Zeros == 0

\* Model.__init__(nx, ny, lat_min, lat_sponge, output_dt) when it succeeds
ModelNew(nx, ny, lat_min, lat_sponge, output_dt) ==
  LET ts == ModelTimestep(nx, ny, output_dt)
  IN [nx |-> nx, ny |-> ny, lat_min |-> lat_min, lat_sponge |-> lat_sponge,
      dt |-> ts.dt, output_dt |-> ts.output_dt, timestep |-> 0,
      colat |-> [pt \in (0..ny) \X (0..nx) |->
                   Colat(pt[2], pt[1], nx, ny, lat_min)],
      sponge |-> [pt \in (0..ny) \X (0..nx) |->
                    SpongeCoeff(Colat(pt[2], pt[1], nx, ny, lat_min),
                                lat_min, lat_sponge)],
      state |-> Zeros, sponged |-> {}, has_data |-> FALSE,
      u_data |-> NoSeries, v_data |-> NoSeries, h_data |-> NoSeries,
      written |-> {}]

\* Model.make_dataset: one slot at t = 0 holding the current fields
ModelMakeDataset(m) ==
  [m EXCEPT !.has_data = TRUE,
            !.u_data = [time |-> <<0>>, val |-> <<m.state>>],
            !.v_data = [time |-> <<0>>, val |-> <<m.state>>],
            !.h_data = [time |-> <<0>>, val |-> <<m.state>>],
            !.written = {0}]

\* Model.initialize(vort_lat, vort_number): new fields, a new dataset
ModelInitialize(m) == ModelMakeDataset([m EXCEPT !.state = m.state + 1])

\* the slots Model.extend_dataset appends
ModelNewSlots(s_u, n, spacing) ==
  LET t_max == TimeMax(s_u)
      nn == Max2(n, Size(s_u))
  IN [time |-> [k \in 1..nn |-> t_max + k * spacing],
      val |-> [k \in 1..nn |-> Zeros]]

\* Model.extend_dataset(n=100)
ModelExtendDataset(m, n) ==
  LET new == ModelNewSlots(m.u_data, n, m.output_dt * m.dt)
  IN [m EXCEPT !.u_data = Concat(m.u_data, new),
               !.v_data = Concat(m.v_data, new),
               !.h_data = Concat(m.h_data, new)]

\* Model.extend_dataset(n) in which an allocation raises MemoryError after
\* part (0, 1 or 2) of the three xr.concat
ModelExtendPart(m, n, part) ==
  LET new == ModelNewSlots(m.u_data, n, m.output_dt * m.dt)
  IN [m EXCEPT !.u_data = IF part >= 1 THEN Concat(m.u_data, new)
                          ELSE m.u_data,
               !.v_data = IF part >= 2 THEN Concat(m.v_data, new)
                          ELSE m.v_data]

\* Model.store_state(): the result is [m, err]; on KeyError it extends and
\* calls itself again, as often as it takes; ext counts the extensions of
\* the call, and a call whose time no extension puts on the axis ends with
\* the MemoryError of an allocation
RECURSIVE ModelStoreState(_, _, _)
ModelStoreState(m, mem, ext) ==
  LET t == m.timestep * m.dt
  IN IF ~m.has_data THEN [m |-> m, err |-> "AttributeError"]
     ELSE IF t \in Times(m.u_data)
       THEN [m |-> [m EXCEPT !.u_data = LocSet(m.u_data, t, m.state),
                             !.v_data = LocSet(m.v_data, t, m.state),
                             !.h_data = LocSet(m.h_data, t, m.state),
                             !.written = m.written \cup {t}],
             err |-> "none"]
     ELSE IF NeverOnAxis(m.u_data, t, m.output_dt * m.dt) /\ ext >= mem.ext
       THEN [m |-> ModelExtendPart(m, 100, mem.part), err |-> "MemoryError"]
     ELSE ModelStoreState(ModelExtendDataset(m, 100), mem, ext + 1)

\* core.rk3 on the fields: zero fields have zero tendencies
Rk3(state) == IF state = Zeros THEN Zeros ELSE state + 1

\* a faulty step: the counter is tested before it is incremented
ModelStepTestBefore(m) ==
  LET m1 == [m EXCEPT !.state = Rk3(m.state),
                      !.sponged = m.sponged \cup {"u", "v"},
                      !.timestep = m.timestep + 1]
  IN IF m.timestep % m1.output_dt = 0 THEN ModelStoreState(m1, SomeMemory, 0)
     ELSE [m |-> m1, err |-> "none"]

\* Model.step(): the result is [m, err]
ModelStep(m) ==
  LET m1 == [m EXCEPT !.state = Rk3(m.state),
                      !.sponged = m.sponged \cup {"u", "v"},
                      !.timestep = m.timestep + 1]
  IN IF m1.timestep % m1.output_dt = 0 THEN ModelStoreState(m1, SomeMemory, 0)
     ELSE [m |-> m1, err |-> "none"]

\* the while loop of Model.run: steps until the elapsed time reaches time,
\* or until a step raises
RECURSIVE RunLoop(_, _, _)
RunLoop(m, t_0, time) ==
  IF m.timestep * m.dt - t_0 < time
    THEN LET r == ModelStep(m)
         IN IF r.err # "none" THEN r ELSE RunLoop(r.m, t_0, time)
    ELSE [m |-> m, err |-> "none"]

\* Model.run(time): the result is [m, err]
ModelRun(m, time) ==
  LET pt == ParseTime(time)
  IN IF pt.err # "none" THEN [m |-> m, err |-> pt.err]
     ELSE RunLoop(m, m.timestep * m.dt, pt.secs)

\* Model.save_nc(filename): the name and the time entries written; the
\* default None is written <<>>
ModelSaveNc(m, filename) ==
  [name |-> (IF filename = <<>> THEN <<"o", "u", "t", "p", "u", "t">>
             ELSE filename) \o DotNc,
   times |-> {t \in Times(m.u_data) : t <= m.timestep * m.dt},
   arg |-> filename]

(***************************************************************************)
(* A component that is not in use                                          *)
(***************************************************************************)
NoCall == [time |-> 0, val |-> NaN, prev_time |-> 0, ext |-> 0]

NoFile == [name |-> <<>>, times |-> {}, arg |-> <<>>]

NoExtend == [n |-> 0, size |-> 0]

NoModelCall ==
  [op |-> "none", err |-> "none", arg |-> NoneArg, step_init |-> 0,
   var |-> "none", computed |-> FALSE]

NoHist == [inits |-> 0, pre_steps |-> 0, direct |-> 0, anims |-> 0,
           pv_reqs |-> 0]

NotBuilt == [done |-> FALSE, err |-> "none", dt |-> 0, output_dt |-> 0]

DataIdle ==
  /\ d_output_dt = 0
  /\ d_u = NoSeries
  /\ d_v = NoSeries
  /\ d_h = NoSeries
  /\ d_time = 0
  /\ d_err = "none"
  /\ d_call = NoCall
  /\ d_calls = 0
  /\ d_seq = FALSE
  /\ d_ext = 0
  /\ d_prev_ext = 0
  /\ d_file = NoFile
  /\ d_extend = NoExtend
  /\ d_pv = NoPv
  /\ d_pv_n = 0

ModelIdle ==
  /\ model = [timestep |-> 0]
  /\ m_call = NoModelCall
  /\ m_hist = NoHist
  /\ m_file = NoFile

ParseIdle ==
  /\ p_val = NoneArg
  /\ p_res = [done |-> FALSE, err |-> "none", secs |-> 0]

CflIdle ==
  /\ c_arg = [nx |-> 0, ny |-> 0]
  /\ c_res = NotBuilt
  /\ c_res2 = NotBuilt

(***************************************************************************)
(* Data: the calls                                                         *)
(***************************************************************************)
\* output intervals of the storages built
DataOutputDts == {2, 3}

\* Data.__init__
DataInit ==
  /\ d_output_dt \in DataOutputDts
  /\ d_u = DataMakeDataset
  /\ d_v = DataMakeDataset
  /\ d_h = DataMakeDataset
  /\ d_time = 0
  /\ d_err = "none"
  /\ d_call = NoCall
  /\ d_calls = 0
  /\ d_seq = TRUE
  /\ d_ext = 0
  /\ d_prev_ext = 0
  /\ d_file = NoFile
  /\ d_extend = NoExtend
  /\ d_pv = NoPv
  /\ d_pv_n = 0
  /\ ModelIdle /\ ParseIdle /\ CflIdle

\* the time of the next store of a caller that stores at 0, D, 2D, ...
NextSeqTime == d_calls * d_output_dt

\* slot index of a store three extensions past a fresh storage
FarTimeIdx == 250

\* times a caller hands to store_state: on the axis or past it, between two
\* slots, before the first slot
StoreTimes ==
  {0, d_output_dt, 101 * d_output_dt, MaxTimeIdx * d_output_dt,
   FarTimeIdx * d_output_dt, 2 * d_output_dt - 1, 0 - d_output_dt}

\* a call store_state(t, u, v, h), the fields being those of call number
\* d_calls + 1
StoreStateCall(t) ==
  LET st0 == [u |-> d_u, v |-> d_v, h |-> d_h, time |-> d_time,
              err |-> "none", ext |-> 0]
  IN /\ d_err = "none"
     /\ \E mem \in (IF NeverOnAxis(d_u, t, d_output_dt) THEN Memories
                    ELSE {SomeMemory}) :
        \E r \in {DataStoreState(st0, t, d_calls + 1, d_output_dt, mem)} :
          /\ d_u' = r.u
          /\ d_v' = r.v
          /\ d_h' = r.h
          /\ d_time' = r.time
          /\ d_err' = r.err
          /\ d_call' = [time |-> t, val |-> d_calls + 1, prev_time |-> d_time,
                        ext |-> r.ext]
          /\ d_calls' = d_calls + 1
          /\ d_seq' = (d_seq /\ t = NextSeqTime)
          /\ d_ext' = d_ext + r.ext
          /\ d_prev_ext' = d_call.ext
          /\ d_file' = NoFile
          /\ d_extend' = NoExtend
          /\ UNCHANGED <<d_output_dt, pvvars, mvars, pvars, cvars>>

\* store_state at the next output time
StoreNext ==
  /\ d_seq
  /\ NextSeqTime <= MaxTimeIdx * d_output_dt
  /\ StoreStateCall(NextSeqTime)

\* store_state at any time
StoreAny ==
  /\ d_calls < MaxFreeCalls
  /\ \E t \in StoreTimes : StoreStateCall(t)

\* store_state one interval after the latest written time
StoreAfter ==
  /\ ~d_seq
  /\ d_time + d_output_dt <= MaxTimeIdx * d_output_dt
  /\ StoreStateCall(d_time + d_output_dt)

\* Data.save_nc(attrs, filename)
DataSaveNc ==
  /\ d_err = "none"
  /\ \E filename \in (IF d_calls = 0 /\ d_ext = 0 /\ d_file = NoFile
                         THEN FileNames
                       ELSE {<<>>, <<"r", "u", "n">>}) :
       d_file' = [name |-> NcName(filename),
                  times |-> DataToDataset(d_u, d_time),
                  arg |-> filename]
  /\ d_extend' = NoExtend
  /\ UNCHANGED <<d_output_dt, d_u, d_v, d_h, d_time, d_err, d_call, d_calls,
                 d_seq, d_ext, d_prev_ext, pvvars, mvars, pvars, cvars>>

\* the n a caller hands to extend_dataset: small ones and the default
ExtendNs == {1, 3, 100}

\* Data.extend_dataset(n) called from outside store_state
ExtendCall ==
  /\ d_err = "none"
  /\ d_calls < MaxFreeCalls
  /\ Size(d_u) < MaxExtendSize
  /\ \E n \in ExtendNs :
       LET st0 == [u |-> d_u, v |-> d_v, h |-> d_h, time |-> d_time,
                   err |-> "none", ext |-> 0]
       IN \E r \in {DataExtendDataset(st0, n, d_output_dt)} :
          /\ d_u' = r.u
          /\ d_v' = r.v
          /\ d_h' = r.h
          /\ d_extend' = [n |-> n, size |-> Size(d_u)]
  /\ d_seq' = FALSE
  /\ d_ext' = d_ext + 1
  /\ d_file' = NoFile
  /\ UNCHANGED <<d_output_dt, d_time, d_err, d_call, d_calls, d_prev_ext,
                 pvvars, mvars, pvars, cvars>>

DataNext == StoreNext \/ StoreAny \/ StoreAfter \/ DataSaveNc \/ ExtendCall

(***************************************************************************)
(* Data: make_dataset and compute_pv called from outside                   *)
(***************************************************************************)
\* Data.make_dataset() called again on a storage filled in order: the three
\* series are one NaN slot at t = 0 again, Data.time stays
MakeDatasetCall ==
  /\ d_err = "none"
  /\ d_seq
  /\ d_u' = DataMakeDataset
  /\ d_v' = DataMakeDataset
  /\ d_h' = DataMakeDataset
  /\ d_seq' = FALSE
  /\ d_file' = NoFile
  /\ d_extend' = NoExtend
  /\ UNCHANGED <<d_output_dt, d_time, d_err, d_call, d_calls, d_ext,
                 d_prev_ext, pvvars, mvars, pvars, cvars>>

\* Data.compute_pv(h_0, f): it computes from the series as they are and
\* sets self.pv, replacing an array set before
ComputePvCall ==
  /\ d_err = "none"
  /\ d_pv_n < MaxPvCalls
  /\ d_pv' = DataComputePv(d_u, d_v, d_h)
  /\ d_pv_n' = d_pv_n + 1
  /\ UNCHANGED <<d_output_dt, d_u, d_v, d_h, d_time, d_err, d_call, d_calls,
                 d_seq, d_ext, d_prev_ext, d_file, d_extend, mvars, pvars,
                 cvars>>

\* the stores and extensions of a storage whose make_dataset and compute_pv
\* are called too
DataCallsNext ==
  StoreNext \/ StoreAny \/ ExtendCall \/ MakeDatasetCall \/ ComputePvCall

(***************************************************************************)
(* Model: the calls                                                        *)
(***************************************************************************)
\* steps a model is followed for
MaxTimestep == 8
\* initialize calls on one model
MaxInits == 2

OneDay == <<"1", " ", "d", "a", "y">>

\* constructor arguments of the models built: nx, ny, lat_min, lat_sponge,
\* output_dt
ModelArgs ==
  {<<2, 2, 61, 65, StrArg(OneDay)>>, <<2, 2, 61, 65, NumArg(1)>>,
   <<3, 2, 61, 65, StrArg(OneDay)>>, <<7, 7, 61, 65, NumArg(1)>>,
   <<5, 5, 60, 70, StrArg(OneDay)>>}

\* Model(nx, ny, lat_min=.., lat_sponge=.., output_dt=..)
ModelInit ==
  /\ \E a \in ModelArgs : model = ModelNew(a[1], a[2], a[3], a[4], a[5])
  /\ m_call = NoModelCall
  /\ m_hist = NoHist
  /\ m_file = NoFile
  /\ DataIdle /\ ParseIdle /\ CflIdle

\* model.initialize(vort_lat, vort_number)
Initialize ==
  /\ m_hist.inits < MaxInits
  /\ model' = ModelInitialize(model)
  /\ m_call' = [NoModelCall EXCEPT !.op = "initialize", !.step_init = model.timestep]
  /\ m_hist' = [m_hist EXCEPT !.inits = m_hist.inits + 1,
                              !.pre_steps = IF m_hist.inits = 0
                                              THEN model.timestep
                                            ELSE m_hist.pre_steps]
  /\ m_file' = NoFile
  /\ UNCHANGED <<dvars, pvars, cvars>>

\* model.step()
Step ==
  /\ model.timestep < MaxTimestep
  /\ \E r \in {ModelStep(model)} :
        /\ model' = r.m
        /\ m_call' = [NoModelCall EXCEPT !.op = "step", !.err = r.err,
                                         !.step_init = model.timestep]
  /\ m_file' = NoFile
  /\ UNCHANGED <<m_hist, dvars, pvars, cvars>>

\* durations handed to run
RunTimes ==
  {NumArg(0), NumArg(1), NumArg(model.dt), NumArg(2 * model.dt + 1),
   StrArg(<<"2", "h">>), StrArg(<<"1", "d">>), NoneArg}

\* model.run(time)
Run ==
  \E time \in RunTimes :
    /\ ParseTime(time).err = "none" =>
         model.timestep * model.dt + ParseTime(time).secs
           <= MaxTimestep * model.dt
    /\ \E r \in {ModelRun(model, time)} :
       /\ model' = r.m
       /\ m_call' = [NoModelCall EXCEPT !.op = "run", !.err = r.err,
                                        !.arg = time,
                                        !.step_init = model.timestep]
       /\ m_file' = NoFile
       /\ UNCHANGED <<m_hist, dvars, pvars, cvars>>

\* model.save_nc(filename)
SaveNc ==
  /\ model.has_data
  /\ \E filename \in {<<>>, <<"r", "u", "n">>, <<"r", "u", "n">> \o DotNc} :
       m_file' = ModelSaveNc(model, filename)
  /\ m_call' = [NoModelCall EXCEPT !.op = "save_nc", !.step_init = model.timestep]
  /\ UNCHANGED <<model, m_hist, dvars, pvars, cvars>>

ModelNext == Initialize \/ Step \/ Run \/ SaveNc

\* model.make_dataset() called from outside initialize
MakeDataset ==
  /\ m_hist.direct < MaxDirectCalls
  /\ model' = ModelMakeDataset(model)
  /\ m_call' = [NoModelCall EXCEPT !.op = "make_dataset",
                                   !.step_init = model.timestep]
  /\ m_file' = NoFile
  /\ m_hist' = [m_hist EXCEPT !.direct = m_hist.direct + 1]
  /\ UNCHANGED <<dvars, pvars, cvars>>

\* model.store_state() called from outside step
StoreState ==
  /\ m_hist.direct < MaxDirectCalls
  /\ \E mem \in Memories : \E r \in {ModelStoreState(model, mem, 0)} :
       /\ model' = r.m
       /\ m_call' = [NoModelCall EXCEPT !.op = "store_state", !.err = r.err,
                                        !.step_init = model.timestep]
  /\ m_file' = NoFile
  /\ m_hist' = [m_hist EXCEPT !.direct = m_hist.direct + 1]
  /\ UNCHANGED <<dvars, pvars, cvars>>

\* model.extend_dataset(n) called from outside store_state; without a
\* dataset self.u_data does not exist
ExtendDataset ==
  /\ m_hist.direct < MaxDirectCalls
  /\ Size(model.u_data) < MaxExtendSize
  /\ \E n \in ExtendNs :
       \E r \in {IF model.has_data
                   THEN [m |-> ModelExtendDataset(model, n), err |-> "none"]
                 ELSE [m |-> model, err |-> "AttributeError"]} :
         /\ model' = r.m
         /\ m_call' = [NoModelCall EXCEPT !.op = "extend_dataset",
                                          !.err = r.err,
                                          !.step_init = model.timestep]
  /\ m_file' = NoFile
  /\ m_hist' = [m_hist EXCEPT !.direct = m_hist.direct + 1]
  /\ UNCHANGED <<dvars, pvars, cvars>>

\* the series a caller asks show_var_anim for
AnimVars == {"u", "v", "h", "pv"}

\* plot.show_var_anim(model, var) on a Model: the first thing it reads is
\* model.data, which no Model has (it keeps u_data, v_data, h_data itself).
\* For u, v, h the AttributeError leaves line 58; for pv the except branch
\* of line 55 catches the one of line 54 and line 56 reads model.data
\* again, before compute_pv is reached.  Nothing is computed or kept
PlotShowVarAnim ==
  /\ m_hist.anims < MaxAnims
  /\ \E var \in AnimVars :
       /\ m_call' = [NoModelCall EXCEPT !.op = "show_var_anim",
                                        !.err = "AttributeError",
                                        !.step_init = model.timestep,
                                        !.var = var,
                                        !.computed = FALSE]
       /\ m_hist' = [m_hist EXCEPT !.anims = m_hist.anims + 1,
                                   !.pv_reqs = m_hist.pv_reqs
                                     + (IF var = "pv" THEN 1 ELSE 0)]
  /\ UNCHANGED <<model, m_file, dvars, pvars, cvars>>

\* the calls of a model and its animations
AnimNext == ModelNext \/ PlotShowVarAnim

\* the calls of a model and the direct calls of its dataset methods; a
\* model whose memory has ended is followed no further
ModelCallsNext ==
  /\ m_call.err # "MemoryError"
  /\ \/ ModelNext
     \/ MakeDataset
     \/ StoreState
     \/ ExtendDataset

(***************************************************************************)
(* parse_time: the calls                                                   *)
(***************************************************************************)
\* tokens of one duration string
MaxTokens == 2

\* seconds of one year, month, week, day, hour, minute, second
UnitSecs == <<31536000, 2592000, 604800, 86400, 3600, 60, 1>>

\* the spellings of each unit a caller may write
UnitNames ==
  <<YearUnits, MonthUnits, WeekUnits, DayUnits \o DayWords, HourUnits,
    MinuteUnits, SecondUnits>>

\* the numbers written in front of a unit
TokenNums == {<<"5">>, <<"1", "2">>}

\* the strings of at most MaxTokens tokens whose units are among the first c,
\* in order; want is the duration the tokens spell, seen the units used.  A
\* minute written M is there only behind a month, week, day or hour token:
\* elsewhere the same string is the one with a month token
RECURSIVE TokenStrings(_)
TokenStrings(c) ==
  IF c = 0 THEN {[str |-> <<>>, want |-> 0, seen |-> {}]}
  ELSE LET prev == TokenStrings(c - 1)
       IN prev \cup
          {[str |-> x.str \o n \o UnitNames[c][a],
            want |-> x.want + NumVal(n) * UnitSecs[c],
            seen |-> x.seen \cup {c}] :
             <<x, n, a>> \in
               {y \in prev \X TokenNums \X (1..Len(UnitNames[c])) :
                  /\ Cardinality(y[1].seen) < MaxTokens
                  /\ (c = 6 /\ y[3] = 1) => y[1].seen \cap {2, 3, 4, 5} # {}}}

LowerOf == [c \in {UpperOf[l] : l \in DOMAIN UpperOf} |->
              CHOOSE l \in DOMAIN UpperOf : UpperOf[l] = c]

\* str.lower()
Lower(s) == [i \in 1..Len(s) |-> IF s[i] \in DOMAIN LowerOf THEN LowerOf[s[i]]
                                 ELSE s[i]]

\* a space behind every digit run and every unit name
RECURSIVE Spaced(_)
Spaced(s) ==
  IF Len(s) <= 1 THEN s
  ELSE IF (s[1] \in Digits) # (s[2] \in Digits)
    THEN <<s[1], " ">> \o Spaced(Tail(s))
  ELSE <<s[1]>> \o Spaced(Tail(s))

\* the duration strings over the first c units: upper case without spaces,
\* lower case with spaces
DurationStrings(c) ==
  LET ts == TokenStrings(c) \ {[str |-> <<>>, want |-> 0, seen |-> {}]}
  IN {[kind |-> "str", num |-> 0, str |-> x.str, tokens |-> TRUE,
       want |-> x.want] : x \in ts}
     \cup
     {[kind |-> "str", num |-> 0, str |-> Spaced(Lower(x.str)),
       tokens |-> TRUE, want |-> x.want] : x \in ts}

\* the strings of the documentation
OneD == <<"1", "d">>

TwoH == <<"2", "h">>

LiteralStrings ==
  {[kind |-> "str", num |-> 0, str |-> OneD, tokens |-> TRUE, want |-> 86400],
   [kind |-> "str", num |-> 0, str |-> TwoH, tokens |-> TRUE, want |-> 7200]}

\* other strings
OtherStrings ==
  {[kind |-> "str", num |-> 0, str |-> q, tokens |-> FALSE, want |-> 0] :
     q \in SeqsUpTo({"1", "D", "x", " ", "."}, 3)}

\* numbers, and values that are neither numbers nor strings
OtherValues ==
  {[kind |-> k, num |-> n, str |-> <<>>, tokens |-> FALSE, want |-> 0] :
     <<k, n>> \in ({"num"} \X {0, 3600, -5}) \cup ({"none", "list"} \X {0})}

ParseInit ==
  /\ p_val \in DurationStrings(7) \cup LiteralStrings \cup OtherStrings
              \cup OtherValues
  /\ p_res = [done |-> FALSE, err |-> "none", secs |-> 0]
  /\ DataIdle /\ ModelIdle /\ CflIdle

\* utils.parse_time(p_val)
ParseCall ==
  /\ ~p_res.done
  /\ \E r \in {ParseTime(p_val)} :
       p_res' = [done |-> TRUE, err |-> r.err, secs |-> r.secs]
  /\ UNCHANGED <<p_val, dvars, mvars, cvars>>

(***************************************************************************)
(* Model construction: the time step                                       *)
(***************************************************************************)
\* the small grids, each tried
MaxGridNx == 50

\* grids about the size where the stable time step falls under one second
FineGrids == {34139, 34140, 34141, 34142}

CflInit ==
  /\ c_arg \in [nx : (2..MaxGridNx) \cup FineGrids, ny : {0, 2}]
  /\ c_res = NotBuilt
  /\ c_res2 = NotBuilt
  /\ DataIdle /\ ModelIdle /\ ParseIdle

\* ny if ny is not None else nx; None is written 0
NyOf(nx, ny) == IF ny = 0 THEN nx ELSE ny

\* Model(nx, ny) and Model(2 * nx, ny) with the defaults of config.py
Construct ==
  /\ ~c_res.done
  /\ LET r == ModelTimestep(c_arg.nx, NyOf(c_arg.nx, c_arg.ny), StrArg(OneDay))
         r2 == ModelTimestep(2 * c_arg.nx, NyOf(2 * c_arg.nx, c_arg.ny),
                             StrArg(OneDay))
     IN /\ c_res' = [done |-> TRUE, err |-> r.err, dt |-> r.dt,
                     output_dt |-> r.output_dt]
        /\ c_res2' = [done |-> TRUE, err |-> r2.err, dt |-> r2.dt,
                      output_dt |-> r2.output_dt]
  /\ UNCHANGED <<c_arg, dvars, mvars, pvars>>

(***************************************************************************)
(* Specifications: one component runs, the others are not in use           *)
(***************************************************************************)
\* the storage
SpecData == DataInit /\ [][DataNext]_vars

\* the model
SpecModel == ModelInit /\ [][ModelNext]_vars

\* the duration parser
SpecParse == ParseInit /\ [][ParseCall]_vars

\* a model between its runs and its animations
SpecAnim == ModelInit /\ [][AnimNext]_vars

\* the construction of a model
SpecCfl == CflInit /\ [][Construct]_vars

\* a storage whose make_dataset and compute_pv are called too
SpecDataCalls == DataInit /\ [][DataCallsNext]_vars

\* a model whose dataset methods are also called from outside
SpecModelCalls == ModelInit /\ [][ModelCallsNext]_vars

(***************************************************************************)
(* Properties                                                              *)
(***************************************************************************)
\* the slot of s at time t holds val
Holds(s, t, val) == \E i \in 1..Size(s) : s.time[i] = t /\ s.val[i] = val

\* C1: every store_state(time, u, v, h) call returns normally, with the
\* three fields written at time and the latest written time the larger of
\* its previous value and time; no error of the retry reaches the caller
C1_StoreStateAlwaysReturns ==
  d_calls > 0 =>
    /\ d_err = "none"
    /\ Holds(d_u, d_call.time, d_call.val)
    /\ Holds(d_v, d_call.time, d_call.val)
    /\ Holds(d_h, d_call.time, d_call.val)
    /\ d_time = Max2(d_call.prev_time, d_call.time)

RECURSIVE Pow2(_)
Pow2(k) == IF k = 0 THEN 1 ELSE 2 * Pow2(k - 1)

\* slots after k extensions of a fresh storage
Capacity(k) == IF k = 0 THEN 1 ELSE 101 * Pow2(k - 1)

\* C2: while snapshots are stored at 0, D, 2D, ... on a fresh storage, the
\* size after k extensions is 1 for k = 0 and 101 * 2^(k-1) after, the k-th
\* extension happened only once more snapshots were stored than the size
\* before it held (so k grows as the logarithm of the number of stores), a
\* store extends at most once, and no two stores in a row both extend
C2_AmortizedGrowth ==
  (d_seq /\ d_calls > 0) =>
    /\ Size(d_u) = Capacity(d_ext)
    /\ Size(d_v) = Capacity(d_ext)
    /\ Size(d_h) = Capacity(d_ext)
    /\ d_ext >= 1 => d_calls > Capacity(d_ext - 1)
    /\ d_call.ext <= 1
    /\ ~(d_call.ext > 0 /\ d_prev_ext > 0)

\* C2 witness: the second extension has happened on the in-order path
C2_Witness == d_seq /\ d_ext = 2 /\ d_calls > 102

\* the last call was a save_nc
Saved == d_file.name # <<>>

\* C3: after N >= 1 snapshots stored at 0, D, ..., (N-1) D, the exported
\* dataset has exactly these N time entries, whatever slots are allocated
C3_ExportExactlyStored ==
  (Saved /\ d_seq /\ d_calls >= 1) =>
    /\ d_file.times = {k * d_output_dt : k \in 0..(d_calls - 1)}
    /\ Cardinality(d_file.times) = d_calls

\* C3 witness: an export of three snapshots from a storage of 101 slots
C3_Witness == Saved /\ d_seq /\ d_calls = 3 /\ Size(d_u) = 101

\* the name without one trailing ".nc"
RemoveNcSuffix(name) ==
  IF Len(name) >= 3 /\ SubSeq(name, Len(name) - 2, Len(name)) = DotNc
    THEN SubSeq(name, 1, Len(name) - 3)
    ELSE name

\* C9: for a non-empty file name, the file written is named by the name
\* given, less one trailing ".nc" if it has one, followed by ".nc"
C9_NcSuffixOnce ==
  (Saved /\ d_file.arg # <<>>) =>
    d_file.name = RemoveNcSuffix(d_file.arg) \o DotNc

\* C4: run(duration) returns after the least number n >= 0 of steps with
\* n * dt >= duration
C4_RunLeastSteps ==
  (m_call.op = "run" /\ ParseTime(m_call.arg).err = "none") =>
    LET n == model.timestep - m_call.step_init
        d == ParseTime(m_call.arg).secs
    IN /\ m_call.err = "none"
       /\ n >= 0
       /\ n * model.dt >= d
       /\ n = 0 \/ (n - 1) * model.dt < d

\* initialize was called once, before any step
InitializedFirst == m_hist.inits = 1 /\ m_hist.pre_steps = 0

\* C5: a step adds one to the counter; after initialize and then steps and
\* runs, the written snapshot times are 0 and the multiples k * output_dt * dt
\* for 1 <= k <= timestep div output_dt, each holding the fields of its step
C5_SnapshotTimes ==
  /\ m_call.op = "step" => model.timestep = m_call.step_init + 1
  /\ InitializedFirst =>
       /\ model.written = {0} \cup {k * model.output_dt * model.dt :
                                  k \in 1..(model.timestep \div model.output_dt)}
       /\ \A t \in model.written :
            /\ Holds(model.u_data, t, 1 + t \div model.dt)
            /\ Holds(model.v_data, t, 1 + t \div model.dt)
            /\ Holds(model.h_data, t, 1 + t \div model.dt)
       /\ m_call.op \in {"step", "run"} =>
            m_call.err = ParseTime(m_call.arg).err \/ m_call.op = "step"

\* C5 witness: two snapshots stored by steps, the counter between two
\* output steps
C5_Witness ==
  /\ InitializedFirst
  /\ model.output_dt > 1
  /\ model.timestep >= 2 * model.output_dt
  /\ model.timestep % model.output_dt # 0

\* C6: parse_time returns a number unchanged, 86400 for "1d" and 7200 for
\* "2h", never fails on a string, and fails with ValueError on a value
\* that is neither a number nor a string
C6_ParseTimeTypes ==
  p_res.done =>
    /\ p_val.kind = "num" => (p_res.err = "none" /\ p_res.secs = p_val.num)
    /\ p_val.kind = "str" => p_res.err = "none"
    /\ p_val.kind \notin {"num", "str"} => p_res.err = "ValueError"
    /\ (p_val.kind = "str" /\ p_val.str = OneD) => p_res.secs = 86400
    /\ (p_val.kind = "str" /\ p_val.str = TwoH) => p_res.secs = 7200

\* C6 witness: None was refused
C6_Witness == p_res.done /\ p_val.kind = "none" /\ p_res.err = "ValueError"

\* C7: a string of <number><unit> tokens in the order years .. seconds, in
\* any spelling, case and spacing, parses to the sum of its tokens
C7_TokensSum ==
  (p_res.done /\ p_val.kind = "str" /\ p_val.tokens) =>
    p_res.secs = p_val.want

\* C8: every construction gives a time step dt >= 1 and an output cadence
\* >= 1, and the model with nx doubled has a time step no larger
C8_DtPositive ==
  c_res.done =>
    /\ c_res.err = "none"
    /\ c_res.dt >= 1
    /\ c_res.output_dt >= 1
    /\ c_res2.dt <= c_res.dt

\* C10: the sponge coefficient is in [0, 1] at every grid point, 1 up to
\* the colatitude of the sponge latitude, 0 from that of the minimum
\* latitude, linear in between and never increasing with colatitude; the
\* steps multiply u and v by it and never h
C10_Sponge ==
  /\ \A pt \in DOMAIN model.sponge :
       LET c == model.colat[pt]
           sp == model.sponge[pt]
           lo == Co(model.lat_sponge) * ColatScale
           hi == Co(model.lat_min) * ColatScale
       IN /\ 0 <= sp.num /\ sp.num <= sp.den /\ sp.den = hi - lo
          /\ c <= lo => sp.num = sp.den
          /\ c >= hi => sp.num = 0
          /\ (lo < c /\ c < hi) => sp.num = hi - c
          /\ \A pt2 \in DOMAIN model.sponge :
               c <= model.colat[pt2] => sp.num >= model.sponge[pt2].num
  /\ "h" \notin model.sponged
  /\ model.timestep > 0 => model.sponged = {"u", "v"}

\* C10 witness: a model that has stepped, with grid points inside the
\* sponge latitude, on the ramp and past the minimum latitude
C10_Witness ==
  /\ model.timestep > 0
  /\ \E pt \in DOMAIN model.sponge : model.sponge[pt].num = model.sponge[pt].den
  /\ \E pt \in DOMAIN model.sponge :
       0 < model.sponge[pt].num /\ model.sponge[pt].num < model.sponge[pt].den
  /\ \E pt \in DOMAIN model.sponge : model.sponge[pt].num = 0

\* the time axis of s starts at 0, increases strictly and is spaced by D
EvenAxis(s, D) ==
  /\ Size(s) >= 1
  /\ Len(s.val) = Size(s)
  /\ s.time[1] = 0
  /\ \A i \in 1..(Size(s) - 1) :
       s.time[i] < s.time[i + 1] /\ s.time[i + 1] - s.time[i] = D

\* the first Size(s) slots of t are the slots of s, times and contents
KeepsSlots(s, t) ==
  /\ Size(t) >= Size(s)
  /\ SubSeq(t.time, 1, Size(s)) = s.time
  /\ SubSeq(t.val, 1, Size(s)) = s.val

\* u, v and h have one time axis, which starts at 0 and is even
SharedEvenAxis ==
  /\ d_u.time = d_v.time
  /\ d_v.time = d_h.time
  /\ EvenAxis(d_u, d_output_dt)
  /\ EvenAxis(d_v, d_output_dt)
  /\ EvenAxis(d_h, d_output_dt)
  /\ d_extend # NoExtend =>
       Size(d_u) = d_extend.size + Max2(d_extend.n, d_extend.size)

\* a call changes the time of no slot, and an extend_dataset call the
\* contents of none
ExtendKeepsSlots ==
  /\ SubSeq(d_u'.time, 1, Size(d_u)) = d_u.time
  /\ d_extend' # NoExtend =>
       /\ KeepsSlots(d_u, d_u')
       /\ KeepsSlots(d_v, d_v')
       /\ KeepsSlots(d_h, d_h')

\* the same of the series a Model keeps once initialize has made them,
\* the spacing being output_dt * dt
ModelSharedEvenAxis ==
  model.has_data =>
    /\ model.u_data.time = model.v_data.time
    /\ model.v_data.time = model.h_data.time
    /\ EvenAxis(model.u_data, model.output_dt * model.dt)
    /\ EvenAxis(model.v_data, model.output_dt * model.dt)
    /\ EvenAxis(model.h_data, model.output_dt * model.dt)

\* C11: after construction and any extend_dataset and store_state calls, u,
\* v and h share one time axis that starts at 0, increases strictly and is
\* spaced by the output interval; extend_dataset(n) appends max(n, size)
\* slots and changes the time and the contents of no slot there was
C11_SharedEvenAxis == [](SharedEvenAxis) /\ [][ExtendKeepsSlots]_vars

\* the call is a show_var_anim
AnimStep == m_hist'.anims = m_hist.anims + 1

\* what one show_var_anim call does: it returns the series asked for; a
\* request for pv computes it when no request for pv came before on this
\* model and computes nothing otherwise; a request for u, v or h computes
\* nothing
PvCacheStep ==
  AnimStep =>
    /\ m_call'.err = "none"
    /\ m_call'.var = "pv" => (m_call'.computed <=> m_hist.pv_reqs = 0)
    /\ m_call'.var # "pv" => ~m_call'.computed

\* C12: across the runs and show_var_anim calls on one model, pv is
\* computed at the first request for it and kept on the storage; a later
\* request for pv gets the kept array and computes nothing; a request for
\* u, v or h neither computes nor changes it
C12_PvCachedOnce == [][PvCacheStep]_vars

\* the last call was a Model.save_nc
ModelSaved == m_call.op = "save_nc" /\ m_file.name # <<>>

\* initialize was called before the first step
InitializedBeforeSteps == m_hist.inits >= 1 /\ m_hist.pre_steps = 0

\* C13: when initialize was called before the first step, every time slot
\* of an export (time <= timestep * dt) was written for that time by
\* initialize or store_state, and holds no zero placeholder of an extension
C13_ExportOnlyWritten ==
  (ModelSaved /\ InitializedBeforeSteps) =>
    \A t \in m_file.times :
      /\ t \in model.written
      /\ ~Holds(model.u_data, t, Zeros)
      /\ ~Holds(model.v_data, t, Zeros)
      /\ ~Holds(model.h_data, t, Zeros)

====
